---- MODULE Spec2Model ----
(***************************************************************************)
(* Model of src/app.py: the TalentScout hiring assistant "Maya".           *)
(*                                                                         *)
(* The Streamlit script is run once per user interaction.  A run that      *)
(* receives a chat message (lines 183-291) is one turn of the phase state  *)
(* machine; a run that receives the click of the restart button (lines     *)
(* 293-299) discards the session.  st.session_state is the variable        *)
(* session_state; the locals of the last run are the remaining variables.  *)
(*                                                                         *)
(* Text is modelled by TLA+ strings, taken apart with Len and SubSeq, so   *)
(* that the validators, the keyword searches and the formatting of the     *)
(* replies are computed character by character as the Python code does.    *)
(* Emoji of the literal texts are left out.                                *)
(***************************************************************************)
EXTENDS Integers, Sequences, FiniteSets, TLC

(***************************************************************************)
(* Python str operations                                                   *)
(***************************************************************************)
LowerAlphabet == "abcdefghijklmnopqrstuvwxyz"
UpperAlphabet == "ABCDEFGHIJKLMNOPQRSTUVWXYZ"
DigitAlphabet == "0123456789"

CharAt(s, i) == SubSeq(s, i, i)

CharsOf(s) == { CharAt(s, i) : i \in 1..Len(s) }

LowerLetters == CharsOf(LowerAlphabet)
UpperLetters == CharsOf(UpperAlphabet)
Letters == LowerLetters \cup UpperLetters
Digits == CharsOf(DigitAlphabet)

\* str.lower() and str.upper() on one letter
LowerOf == [c \in UpperLetters |-> CharAt(LowerAlphabet, CHOOSE i \in 1..26 : CharAt(UpperAlphabet, i) = c)]
UpperOf == [c \in LowerLetters |-> CharAt(UpperAlphabet, CHOOSE i \in 1..26 : CharAt(LowerAlphabet, i) = c)]

LowerChar(c) == IF c \in UpperLetters THEN LowerOf[c] ELSE c
UpperChar(c) == IF c \in LowerLetters THEN UpperOf[c] ELSE c

\* str.lower()
RECURSIVE lower(_)
lower(s) == IF Len(s) = 0 THEN "" ELSE LowerChar(CharAt(s, 1)) \o lower(SubSeq(s, 2, Len(s)))

\* the Python expression  sub in s
Contains(sub, s) ==
    \E i \in 1..(Len(s) - Len(sub) + 1) : SubSeq(s, i, i + Len(sub) - 1) = sub

\* str.strip(): the only whitespace of the modelled alphabet is the blank
RECURSIVE lstrip(_)
lstrip(s) == IF Len(s) > 0 /\ CharAt(s, 1) = " " THEN lstrip(SubSeq(s, 2, Len(s))) ELSE s

RECURSIVE rstrip(_)
rstrip(s) == IF Len(s) > 0 /\ CharAt(s, Len(s)) = " " THEN rstrip(SubSeq(s, 1, Len(s) - 1)) ELSE s

strip(s) == rstrip(lstrip(s))

\* str.replace(c, "") for a one-character c, and re.sub(r'[^0-9]', '', s)
RECURSIVE Keep(_, _)
Keep(s, chars) ==
    IF Len(s) = 0 THEN ""
    ELSE (IF CharAt(s, 1) \in chars THEN CharAt(s, 1) ELSE "") \o Keep(SubSeq(s, 2, Len(s)), chars)

RECURSIVE Remove(_, _)
Remove(s, c) ==
    IF Len(s) = 0 THEN ""
    ELSE (IF CharAt(s, 1) = c THEN "" ELSE CharAt(s, 1)) \o Remove(SubSeq(s, 2, Len(s)), c)

\* str.isalpha(): non-empty and every character a letter
isalpha(s) == Len(s) > 0 /\ \A i \in 1..Len(s) : CharAt(s, i) \in Letters

AllIn(s, chars) == \A i \in 1..Len(s) : CharAt(s, i) \in chars

\* index of the first occurrence of the one-character c in s, 0 when absent
Find(s, c) ==
    IF \E i \in 1..Len(s) : CharAt(s, i) = c
    THEN CHOOSE i \in 1..Len(s) : CharAt(s, i) = c /\ \A j \in 1..(i - 1) : CharAt(s, j) # c
    ELSE 0

\* str.split(): the whitespace separated tokens, none of them empty
RECURSIVE split(_)
split(s) ==
    LET t == lstrip(s)
        k == Find(t, " ")
    IN  IF Len(t) = 0 THEN << >>
        ELSE IF k = 0 THEN << t >>
        ELSE << SubSeq(t, 1, k - 1) >> \o split(SubSeq(t, k + 1, Len(t)))

\* s.split(c)[0] and s.split(c, 1)[1]
SplitFirst(s, c) == IF Find(s, c) = 0 THEN s ELSE SubSeq(s, 1, Find(s, c) - 1)
SplitRest(s, c) == SubSeq(s, Find(s, c) + 1, Len(s))

(***************************************************************************)
(* Numbers: the text of a float and back (float(), int(), f"{value}")      *)
(***************************************************************************)
DigitValueOf == [c \in Digits |-> (CHOOSE i \in 1..10 : CharAt(DigitAlphabet, i) = c) - 1]
DigitValue(c) == DigitValueOf[c]

\* the value of a digit string; values of 1000 and more are all read as 1000,
\* which keeps them apart from every number the code compares with (0, 2, 5, 50)
RECURSIVE ToNat(_)
ToNat(s) ==
    IF Len(s) = 0 THEN 0
    ELSE LET hi == ToNat(SubSeq(s, 1, Len(s) - 1))
         IN  IF hi >= 100 THEN 1000 ELSE 10 * hi + DigitValue(CharAt(s, Len(s)))

RECURSIVE NatStr(_)
NatStr(n) == IF n < 10 THEN CharAt(DigitAlphabet, n + 1) ELSE NatStr(n \div 10) \o CharAt(DigitAlphabet, (n % 10) + 1)

RECURSIVE StripTrailingZeros(_)
StripTrailingZeros(s) ==
    IF Len(s) > 0 /\ CharAt(s, Len(s)) = "0" THEN StripTrailingZeros(SubSeq(s, 1, Len(s) - 1)) ELSE s

\* re.match(r'^\d+(\.\d+)?$', s)
IsUnsignedDecimal(s) ==
    LET k == Find(s, ".")
    IN  IF k = 0 THEN Len(s) > 0 /\ AllIn(s, Digits)
        ELSE /\ k > 1 /\ AllIn(SubSeq(s, 1, k - 1), Digits)
             /\ k < Len(s) /\ AllIn(SubSeq(s, k + 1, Len(s)), Digits)

\* float(x) of a text IsUnsignedDecimal accepts (float() ignores surrounding
\* blanks): the integer part, and the fraction digits without trailing zeros.
\* Exact for the short decimals of the modelled inputs.
float(x) ==
    LET s == strip(x)
        k == Find(s, ".")
    IN  IF k = 0 THEN [ip |-> ToNat(s), frac |-> ""]
        ELSE [ip |-> ToNat(SubSeq(s, 1, k - 1)), frac |-> StripTrailingZeros(SubSeq(s, k + 1, Len(s)))]

FloatIsZero(v) == v.ip = 0 /\ v.frac = ""
FloatLess(v, n) == v.ip < n
FloatLeq(v, n) == v.ip < n \/ (v.ip = n /\ v.frac = "")

\* f"{value}" of a float, and f"{int(value)}"
FloatStr(v) == NatStr(v.ip) \o "." \o (IF v.frac = "" THEN "0" ELSE v.frac)
IntStr(v) == NatStr(v.ip)

(***************************************************************************)
(* The model gateway: what client.chat.completions.create may do.  A call  *)
(* either raises or returns a message content; the turn draws the outcome  *)
(* of each call it makes from these sets.                                  *)
(***************************************************************************)
Raised == [raised |-> TRUE]
Returned(c) == [raised |-> FALSE, content |-> c]

\* replies to the plausibility check
ValidationReplies == { Returned("Yes"), Returned(" no "), Raised }

\* lines 19-33
validate_text_input_with_ai(user_input, field_name, reply) ==
    IF reply.raised
    THEN Len(user_input) > 2
    ELSE LET decision == lower(strip(reply.content)) IN Contains("yes", decision)

(***************************************************************************)
(* Constants and data steps                                                *)
(***************************************************************************)
GREETING == "greeting"
DATA_COLLECTION == "data_collection"
DATA_CONFIRMATION == "data_confirmation"
TECHNICAL_QUESTIONS == "technical_questions"
CONCLUSION == "conclusion"
ENDED == "ended"

CONVERSATION_PHASES ==
    { GREETING, DATA_COLLECTION, DATA_CONFIRMATION, TECHNICAL_QUESTIONS, CONCLUSION, ENDED }

EXIT_KEYWORDS ==
    { "bye", "goodbye", "exit", "quit", "end", "stop", "finish", "done", "thanks", "thank you" }

DATA_STEPS ==
    << [field |-> "name", prompt |-> "What's your full name?",
        error_msg |-> "Please provide your complete full name (first and last name).",
        label |-> ""],
       [field |-> "email", prompt |-> "Could you please share your email address?",
        error_msg |-> "Please provide a valid email address.",
        label |-> ""],
       [field |-> "phone", prompt |-> "What's your phone number?",
        error_msg |-> "Please provide a valid phone number with at least 10 digits.",
        label |-> ""],
       [field |-> "experience", prompt |-> "How many years of professional experience do you have?",
        error_msg |-> "Please provide your experience in years (e.g., 2, 3.5, 0 for fresher).",
        label |-> ""],
       [field |-> "position", prompt |-> "What position are you interested in applying for?",
        error_msg |-> "Please provide a valid and clear job position.",
        label |-> "Job Position"],
       [field |-> "location", prompt |-> "What's your preferred work location? (or are you open to remote work?)",
        error_msg |-> "Please provide a valid location or specify 'remote'.",
        label |-> "Work Location"],
       [field |-> "tech_stack", prompt |-> "What programming languages, frameworks, and technologies are you proficient in?",
        error_msg |-> "Please list the technical skills you are proficient in.",
        label |-> "Technology Stack"] >>

FIELDS == { DATA_STEPS[k].field : k \in 1..Len(DATA_STEPS) }

\* line 39
ValidName(x) ==
    LET parts == split(strip(x))
    IN  /\ Len(parts) >= 2
        /\ \A i \in 1..Len(parts) : isalpha(Remove(Remove(parts[i], "-"), "'"))

\* line 40: ^[a-zA-Z0-9._%+-]+@[a-zA-Z0-9.-]+\.[a-zA-Z]{2,}$
LocalChars == Letters \cup Digits \cup {".", "_", "%", "+", "-"}
DomainChars == Letters \cup Digits \cup {".", "-"}

ValidEmail(x) ==
    LET s == strip(x)
    IN  \E i \in 2..Len(s) : \E j \in (i + 2)..(Len(s) - 2) :
            /\ CharAt(s, i) = "@"
            /\ CharAt(s, j) = "."
            /\ AllIn(SubSeq(s, 1, i - 1), LocalChars)
            /\ AllIn(SubSeq(s, i + 1, j - 1), DomainChars)
            /\ AllIn(SubSeq(s, j + 1, Len(s)), Letters)

\* line 41
ValidPhone(x) == Len(Keep(x, Digits)) >= 10

\* line 42
ValidExperience(x) == IsUnsignedDecimal(strip(x)) /\ FloatLeq(float(x), 50)

\* DATA_STEPS[k]["validation"](x); reply is the outcome of the gateway call
\* the validators of steps 5 to 7 make
Validation(k, x, reply) ==
    CASE k = 1 -> ValidName(x)
      [] k = 2 -> ValidEmail(x)
      [] k = 3 -> ValidPhone(x)
      [] k = 4 -> ValidExperience(x)
      [] OTHER -> validate_text_input_with_ai(x, DATA_STEPS[k].label, reply)

\* whether step k's validator asks the gateway
UsesGateway(k) == k >= 5


(***************************************************************************)
(* Answer evaluation (lines 49-75).  The content of the gateway's reply is *)
(* a JSON text; it is given here by what json.loads makes of it: a text    *)
(* that is no JSON (json.loads raises), a JSON value that is no object, or *)
(* an object with or without the keys "feedback" and "explanation" (a key  *)
(* that is present is a one-element sequence).                             *)
(***************************************************************************)
NotJson == [kind |-> "invalid", feedback |-> << >>, explanation |-> << >>]
JsonArray == [kind |-> "array", feedback |-> << >>, explanation |-> << >>]
JsonObject(f, e) == [kind |-> "object", feedback |-> f, explanation |-> e]

ModelFeedback == "You're on the right track!"
ModelExplanation == "Here's a breakdown: it depends."

EvaluationReplies ==
    { Returned(JsonObject(<< ModelFeedback >>, << ModelExplanation >>)),
      Returned(JsonObject(<< >>, << ModelExplanation >>)),
      Returned(JsonObject(<< ModelFeedback >>, << >>)),
      Returned(JsonArray),
      Returned(NotJson),
      Raised }

\* lines 49-75: the value returned, a dict (kind "object") or whatever else
\* json.loads returned
evaluate_technical_answer(question, answer, candidate_name, candidate_experience_level, tech_stack, reply) ==
    IF reply.raised \/ reply.content.kind = "invalid"
    THEN JsonObject(
            << "Great, thank you for your response, "
                 \o (IF candidate_name # "" THEN candidate_name ELSE "Anuj") \o "!" >>,
            << "Let's move on to the next question." >>)
    ELSE reply.content

\* dict.get(key, default) on the keys "feedback" and "explanation"
DictGet(present, default) == IF Len(present) > 0 THEN present[1] ELSE default

(***************************************************************************)
(* Free-form replies (lines 88-101)                                        *)
(***************************************************************************)
FreeFormReplies == { Returned("Hello! I'm Maya from TalentScout."), Returned(""), Raised }

\* lines 96-101
get_ai_response(messages, system_prompt, reply) ==
    IF reply.raised
    THEN "I'm experiencing some technical difficulties right now. Could we try that again?"
    ELSE reply.content

(***************************************************************************)
(* Question generation (lines 103-112)                                     *)
(***************************************************************************)
fallback_questions ==
    << "Tell me about a challenging project you've worked on.",
       "How do you approach debugging?",
       "What coding best practices do you follow?",
       "How do you stay updated with new technologies?",
       "Describe your experience with version control." >>

\* str.split('\n')
RECURSIVE SplitLines(_)
SplitLines(s) ==
    LET k == Find(s, "\n")
    IN  IF k = 0 THEN << s >> ELSE << SubSeq(s, 1, k - 1) >> \o SplitLines(SubSeq(s, k + 1, Len(s)))

\* line and re.match(r'^\d\.', line.strip())
IsNumberedLine(line) ==
    LET t == strip(line)
    IN  Len(line) > 0 /\ Len(t) >= 2 /\ CharAt(t, 1) \in Digits /\ CharAt(t, 2) = "."

\* [line.split('.', 1)[1].strip() for line in lines if ...]
RECURSIVE ParseQuestions(_)
ParseQuestions(lines) ==
    IF Len(lines) = 0 THEN << >>
    ELSE (IF IsNumberedLine(Head(lines)) THEN << strip(SplitRest(Head(lines), ".")) >> ELSE << >>)
         \o ParseQuestions(Tail(lines))

experience_level(experience) ==
    IF FloatLess(float(experience), 2) THEN "entry-level"
    ELSE IF FloatLess(float(experience), 5) THEN "mid-level"
    ELSE "senior-level"

FiveQuestions ==
    "1. What is a decorator?\n2. What is a generator?\n3. What is an index?\n4. What is a join?\n5. What is a transaction?"

GenerationReplies ==
    { Returned(FiveQuestions),
      Returned("Here are 5 questions:\n\n" \o FiveQuestions \o "\n"),
      Returned("1. What is a decorator?\n2. What is a generator?\n3. What is an index?\n4. What is a join?"),
      Returned(FiveQuestions \o "\n6. What is a view?"),
      Returned("1. What is a decorator?\n2. What is a generator?\n3.\n4. What is a join?\n5. What is a transaction?"),
      Raised }

\* lines 103-112
generate_technical_questions(tech_stack, experience, reply) ==
    IF reply.raised THEN fallback_questions
    ELSE LET questions == ParseQuestions(SplitLines(reply.content))
         IN  IF Len(questions) = 5 THEN SubSeq(questions, 1, 5) ELSE fallback_questions

(***************************************************************************)
(* Session state (lines 78-86)                                             *)
(***************************************************************************)
SessionDefaults ==
    [ candidate_data |-> [f \in FIELDS |-> ""],
      current_step |-> 1,
      conversation_phase |-> GREETING,
      technical_questions |-> << >>,
      technical_answers |-> << >>,
      current_question_index |-> 0,
      retry_count |-> 0,
      messages |-> << >> ]

\* a session state without any key
NoKeys == [k \in {} |-> 0]

\* lines 78-86: every key that is missing gets its default
initialize_session_state(ss) ==
    [k \in DOMAIN SessionDefaults |-> IF k \in DOMAIN ss THEN ss[k] ELSE SessionDefaults[k]]

\* the deletion sparing the message history
DeleteKeysExceptMessages(ss, keys) == [k \in (DOMAIN ss \ (keys \ {"messages"})) |-> ss[k]]

\* lines 297-298: del st.session_state[key] for every key of keys
DeleteKeys(ss, keys) == [k \in (DOMAIN ss \ keys) |-> ss[k]]


(***************************************************************************)
(* Texts of the turn                                                       *)
(***************************************************************************)
\* str.title(): a letter that follows no letter is put in upper case, every
\* other letter in lower case
RECURSIVE TitleFrom(_, _)
TitleFrom(s, afterLetter) ==
    IF Len(s) = 0 THEN ""
    ELSE (IF afterLetter THEN LowerChar(CharAt(s, 1)) ELSE UpperChar(CharAt(s, 1)))
         \o TitleFrom(SubSeq(s, 2, Len(s)), CharAt(s, 1) \in Letters)

\* str.replace(a, b) for one-character a and b
RECURSIVE ReplaceChar(_, _, _)
ReplaceChar(s, a, b) ==
    IF Len(s) = 0 THEN ""
    ELSE (IF CharAt(s, 1) = a THEN b ELSE CharAt(s, 1)) \o ReplaceChar(SubSeq(s, 2, Len(s)), a, b)

\* key.replace('_', ' ').title()
FieldTitle(key) == TitleFrom(ReplaceChar(key, "_", " "), FALSE)

\* "\n".join(lines)
RECURSIVE Join(_)
Join(lines) ==
    IF Len(lines) = 0 THEN ""
    ELSE IF Len(lines) = 1 THEN lines[1]
    ELSE lines[1] \o "\n" \o Join(Tail(lines))

\* line 237: one line per field with a non-empty value, in the order of the dict
RECURSIVE SummaryLinesFrom(_, _)
SummaryLinesFrom(candidate_data, k) ==
    IF k > Len(DATA_STEPS) THEN << >>
    ELSE LET key == DATA_STEPS[k].field
             v == candidate_data[key]
         IN  (IF v # "" THEN << "- **" \o FieldTitle(key) \o ":** " \o v >> ELSE << >>)
             \o SummaryLinesFrom(candidate_data, k + 1)

\* the summary cut after six entries
data_summary_of_six(candidate_data) == Join(SubSeq(SummaryLinesFrom(candidate_data, 1), 1, 6))

data_summary(candidate_data) == Join(SummaryLinesFrom(candidate_data, 1))

\* lines 191-192
candidate_first_name(ss) ==
    LET candidate_name == ss.candidate_data["name"]
    IN  IF candidate_name # "" THEN SplitFirst(candidate_name, " ") ELSE "there"

\* line 195
HasExitKeyword(p) == \E keyword \in EXIT_KEYWORDS : Contains(keyword, lower(p))

\* line 243
IsAffirmative(p) == \E word \in {"yes", "correct", "confirm", "proceed"} : Contains(word, lower(p))

\* lines 88-94, the directives shortened: only the gateway reads them
get_system_prompt(ph) ==
    LET base_prompt == "You are Maya, a friendly, warm, and professional hiring assistant for TalentScout."
    IN  IF ph = GREETING THEN base_prompt \o " Greet the candidate warmly."
        ELSE IF ph = CONCLUSION THEN base_prompt \o " Thank the candidate warmly for their time."
        ELSE base_prompt

\* lines 216-227: the remark on the experience just stored
experience_msg(experience) ==
    LET experience_val == float(experience)
    IN  IF FloatIsZero(experience_val)
        THEN "With " \o IntStr(experience_val) \o " years of experience, you're just starting out! "
        ELSE IF FloatLess(experience_val, 2)
        THEN "With " \o FloatStr(experience_val) \o " years of experience, that's a great start! "
        ELSE IF FloatLess(experience_val, 5)
        THEN "With " \o FloatStr(experience_val) \o " years of experience, you're building a solid foundation! "
        ELSE "With " \o FloatStr(experience_val) \o " years of experience, you have significant expertise! "

\* lines 210-231: the acknowledgement of step k, from the profile as just updated;
\* step 7 has none
Acknowledgement(k, candidate_data, first) ==
    CASE k = 1 -> "Hi " \o first \o "! Thanks for sharing your full name. Next, " \o DATA_STEPS[2].prompt
      [] k = 2 -> "Got it, " \o first \o "! Your email address is " \o candidate_data["email"]
                  \o ". Next, " \o DATA_STEPS[3].prompt
      [] k = 3 -> first \o "! Your phone number is " \o candidate_data["phone"]
                  \o ". Next, " \o DATA_STEPS[4].prompt
      [] k = 4 -> first \o "! " \o experience_msg(candidate_data["experience"])
                  \o "Next, " \o DATA_STEPS[5].prompt
      [] k = 5 -> first \o "! You're interested in a " \o candidate_data["position"]
                  \o " position. That's great! Next, " \o DATA_STEPS[6].prompt
      [] k = 6 -> first \o "! You're looking for a " \o candidate_data["position"]
                  \o " opportunity in " \o candidate_data["location"]
                  \o ". Got it! Next, " \o DATA_STEPS[7].prompt
      [] OTHER -> ""


(***************************************************************************)
(* State                                                                   *)
(***************************************************************************)
VARIABLES
    session_state,  \* st.session_state
    prompt,         \* the chat message of the last run ("" when it had none)
    phase,          \* the local phase of the last run (lines 128, 189)
    branch,         \* the branch of the dispatch (lines 195-287) the last run took
    is_valid,       \* the validator's verdict, when the run asked for one
    bot_response,   \* the local bot_response at the end of the last run
    error,          \* whether an exception ended the last run
    calls,          \* the gateway calls of the last run, in order
    detours         \* turns of this session that left the reference dialogue

vars == << session_state, prompt, phase, branch, is_valid, bot_response, error, calls, detours >>

(***************************************************************************)
(* The branches of the dispatch.  Each takes the session state ss as it is *)
(* once the user message is appended (line 185), the message p, the        *)
(* candidate's first name as computed before the dispatch, and the outcome *)
(* of the gateway call the branch makes; each yields the session state and *)
(* the locals at line 289.                                                 *)
(***************************************************************************)
Outcome(ss, valid, bot, err, made) ==
    [session_state |-> ss, is_valid |-> valid, bot_response |-> bot, error |-> err, calls |-> made]

\* the exit taken after the store of line 207: in data_collection the message
\* is kept as the value of the current step
exit_branch_storing_message(ss, p, first) ==
    Outcome([ss EXCEPT !.conversation_phase = ENDED,
                       !.candidate_data =
                           IF ss.conversation_phase = DATA_COLLECTION
                           THEN [@ EXCEPT ![DATA_STEPS[ss.current_step].field] = p]
                           ELSE @],
            FALSE, "Thank you for your time! Best of luck, " \o first \o "!", FALSE, << >>)

\* lines 195-197
exit_branch(ss, p, first) ==
    Outcome([ss EXCEPT !.conversation_phase = ENDED], FALSE,
            "Thank you for your time! Best of luck, " \o first \o "!", FALSE, << >>)

\* the greeting that takes the first message for the answer to step 1
greeting_branch_storing_name(ss, p, first, reply) ==
    Outcome([ss EXCEPT !.conversation_phase = DATA_COLLECTION,
                       !.candidate_data["name"] = p],
            FALSE,
            get_ai_response(ss.messages, get_system_prompt(GREETING), reply),
            FALSE, << "get_ai_response" >>)

\* lines 199-202
greeting_branch(ss, p, first, reply) ==
    Outcome([ss EXCEPT !.conversation_phase = DATA_COLLECTION], FALSE,
            get_ai_response(ss.messages, get_system_prompt(GREETING), reply),
            FALSE, << "get_ai_response" >>)

\* the acceptance without line 207: the step moves on and nothing is stored
AcceptedWithoutStoring(ss, k, p, first, made) ==
    Outcome([ss EXCEPT !.current_step = k + 1,
                       !.conversation_phase =
                           IF k + 1 > Len(DATA_STEPS) THEN DATA_CONFIRMATION ELSE @],
            TRUE, Acknowledgement(k, ss.candidate_data, first), FALSE, made)

\* lines 207-238: the message passed step k's validator
Accepted(ss, k, p, first, made) ==
    LET stored == [ss.candidate_data EXCEPT ![DATA_STEPS[k].field] = p]
        advanced == [ss EXCEPT !.candidate_data = stored, !.current_step = k + 1]
    IN  IF k + 1 > Len(DATA_STEPS)
        THEN Outcome([advanced EXCEPT !.conversation_phase = DATA_CONFIRMATION], TRUE,
                     "Alright, " \o first
                       \o "! We've gathered all your information. Does this look correct?\n\n"
                       \o data_summary(stored)
                       \o "\n\nPlease type 'yes' to confirm or tell me what to change.",
                     FALSE, made)
        ELSE Outcome(advanced, TRUE, Acknowledgement(k, stored, first), FALSE, made)

\* the rejection with the store of line 207 moved before the validation
RejectedButStored(ss, k, p, first, made) ==
    Outcome([ss EXCEPT !.candidate_data[DATA_STEPS[k].field] = p], FALSE,
            "I need a bit more clarity, " \o first \o ". " \o DATA_STEPS[k].error_msg
              \o " Could you please try again?",
            FALSE, made)

\* the rejection that moves on to the next step all the same, while there is one
RejectedButAdvanced(ss, k, p, first, made) ==
    Outcome([ss EXCEPT !.current_step = IF k < Len(DATA_STEPS) THEN k + 1 ELSE k], FALSE,
            "I need a bit more clarity, " \o first \o ". " \o DATA_STEPS[k].error_msg
              \o " Could you please try again?",
            FALSE, made)

\* lines 239-240: the message failed step k's validator
Rejected(ss, k, p, first, made) ==
    Outcome(ss, FALSE,
            "I need a bit more clarity, " \o first \o ". " \o DATA_STEPS[k].error_msg
              \o " Could you please try again?",
            FALSE, made)

\* lines 204-240
data_collection_branch(ss, p, first, reply) ==
    LET k == ss.current_step
        made == IF UsesGateway(k) THEN << "validate_text_input_with_ai" >> ELSE << >>
    IN  IF Validation(k, p, reply)
        THEN Accepted(ss, k, p, first, made)
        ELSE Rejected(ss, k, p, first, made)

\* the confirmation with the introduction of the questions asked of the
\* gateway too: two calls in the turn
ConfirmedWithIntroCall(ss, first, reply) ==
    LET questions == generate_technical_questions(
                         ss.candidate_data["tech_stack"], ss.candidate_data["experience"], reply)
    IN  Outcome([ss EXCEPT !.technical_questions = questions,
                           !.technical_answers = [i \in 1..Len(questions) |-> ""],
                           !.conversation_phase = TECHNICAL_QUESTIONS],
                FALSE,
                get_ai_response(ss.messages, get_system_prompt(TECHNICAL_QUESTIONS), Raised)
                  \o "\n\n**Question 1:** " \o questions[1],
                FALSE, << "generate_technical_questions", "get_ai_response" >>)

\* the confirmation without line 246: the phase stays data_confirmation
ConfirmedWithoutPhaseChange(ss, first, reply) ==
    LET questions == generate_technical_questions(
                         ss.candidate_data["tech_stack"], ss.candidate_data["experience"], reply)
    IN  Outcome([ss EXCEPT !.technical_questions = questions,
                           !.technical_answers = [i \in 1..Len(questions) |-> ""]],
                FALSE,
                first \o "! Here's your first question:\n\n**Question 1:** " \o questions[1],
                FALSE, << "generate_technical_questions" >>)

\* lines 244-255: the candidate confirmed the summary
Confirmed(ss, first, reply) ==
    LET questions == generate_technical_questions(
                         ss.candidate_data["tech_stack"], ss.candidate_data["experience"], reply)
    IN  Outcome([ss EXCEPT !.technical_questions = questions,
                           !.technical_answers = [i \in 1..Len(questions) |-> ""],
                           !.conversation_phase = TECHNICAL_QUESTIONS],
                FALSE,
                first \o "! You're familiar with " \o ss.candidate_data["tech_stack"]
                  \o ", which is a great combination for " \o ss.candidate_data["position"]
                  \o ". Next, I'll ask you some technical questions to assess your skills."
                  \o " Please answer them one by one. Here's your first question:\n\n**Question 1:** "
                  \o questions[1],
                FALSE, << "generate_technical_questions" >>)

\* two ways of acting on "tell me what to change": the profile is emptied, or
\* the collection starts again
NotConfirmedClearingProfile(ss, first) ==
    Outcome([ss EXCEPT !.candidate_data = [f \in FIELDS |-> ""]], FALSE,
            "No problem, " \o first \o "! What information would you like to change?",
            FALSE, << >>)

NotConfirmedBackToCollection(ss, first) ==
    Outcome([ss EXCEPT !.conversation_phase = DATA_COLLECTION, !.current_step = 1], FALSE,
            "No problem, " \o first \o "! What information would you like to change?",
            FALSE, << >>)

\* a third: the question of what to change is asked of the gateway
NotConfirmedAskingGateway(ss, first) ==
    Outcome(ss, FALSE,
            get_ai_response(ss.messages, get_system_prompt(DATA_CONFIRMATION), Raised),
            FALSE, << "get_ai_response" >>)

\* lines 256-257: the candidate did not
NotConfirmed(ss, first) ==
    Outcome(ss, FALSE,
            "No problem, " \o first \o "! What information would you like to change?",
            FALSE, << >>)

\* lines 242-257
data_confirmation_branch(ss, p, first, reply) ==
    IF IsAffirmative(p) THEN Confirmed(ss, first, reply) ELSE NotConfirmed(ss, first)

\* the branch asking a question of the fallback list after every answer, the
\* list taking the place of the generated one
technical_questions_branch_regenerating(ss, p, first, reply) ==
    LET index == ss.current_question_index
        answered == [ss EXCEPT !.technical_questions = fallback_questions,
                               !.technical_answers[index + 1] = p,
                               !.current_question_index = index + 1]
    IN  IF index + 1 < Len(fallback_questions)
        THEN Outcome(answered, FALSE,
                     "Ready for the next one, " \o first \o "?\n\n**Question "
                       \o NatStr(index + 2) \o ":** " \o fallback_questions[index + 2],
                     FALSE, << "evaluate_technical_answer" >>)
        ELSE Outcome([answered EXCEPT !.conversation_phase = CONCLUSION], FALSE,
                     "**Fantastic, " \o first \o "!** You've completed all the technical questions!",
                     FALSE, << "evaluate_technical_answer" >>)

\* the branch without line 274: the cursor moves on and no answer is recorded
technical_questions_branch_not_recording(ss, p, first, reply) ==
    LET index == ss.current_question_index
        advanced == [ss EXCEPT !.current_question_index = index + 1]
    IN  IF index + 1 < Len(ss.technical_questions)
        THEN Outcome(advanced, FALSE,
                     "Ready for the next one, " \o first \o "?\n\n**Question "
                       \o NatStr(index + 2) \o ":** " \o ss.technical_questions[index + 2],
                     FALSE, << "evaluate_technical_answer" >>)
        ELSE Outcome([advanced EXCEPT !.conversation_phase = CONCLUSION], FALSE,
                     "**Fantastic, " \o first \o "!** You've completed all the technical questions!",
                     FALSE, << "evaluate_technical_answer" >>)

\* lines 259-282; the lists of the session state are indexed from 0 in the code
\* and from 1 here
technical_questions_branch(ss, p, first, reply) ==
    LET index == ss.current_question_index
        made == << "evaluate_technical_answer" >>
    IN  IF index >= Len(ss.technical_questions)
        THEN Outcome(ss, FALSE, "", TRUE, << >>)         \* IndexError, line 260
        ELSE
        LET current_question == ss.technical_questions[index + 1]
            evaluation == evaluate_technical_answer(
                              current_question, p, first,
                              experience_level(ss.candidate_data["experience"]),
                              ss.candidate_data["tech_stack"], reply)
        IN  IF evaluation.kind # "object"
            THEN Outcome(ss, FALSE, "", TRUE, made)      \* AttributeError, line 270
            ELSE
            LET feedback == DictGet(evaluation.feedback, "Thanks for your answer, " \o first \o "!")
                explanation == DictGet(evaluation.explanation, "Let's proceed.")
                answered == [ss EXCEPT !.technical_answers[index + 1] = p,
                                       !.current_question_index = index + 1]
            IN  IF index + 1 < Len(ss.technical_questions)
                THEN Outcome(answered, FALSE,
                             feedback \o "\n\n" \o explanation
                               \o "\n\n---\n\nReady for the next one, " \o first
                               \o "?\n\n**Question " \o NatStr(index + 2) \o ":** "
                               \o ss.technical_questions[index + 2],
                             FALSE, made)
                ELSE Outcome([answered EXCEPT !.conversation_phase = CONCLUSION], FALSE,
                             feedback \o "\n\n" \o explanation
                               \o "\n\n---\n\n**Fantastic, " \o first
                               \o "!** You've completed all the technical questions! You did really well,"
                               \o " and I appreciate you talking through them with me."
                               \o " Let me give you information about the next steps.",
                             FALSE, made)

\* lines 284-287
conclusion_branch(ss, p, first, reply) ==
    Outcome([ss EXCEPT !.conversation_phase = ENDED], FALSE,
            get_ai_response(ss.messages, get_system_prompt(CONCLUSION), reply),
            FALSE, << "get_ai_response" >>)

\* line 185
WithUserMessage(ss, p) ==
    [ss EXCEPT !.messages = Append(@, [role |-> "user", content |-> p])]

\* lines 289-291; an exception has ended the run before them
WithBotMessage(out) ==
    IF ~out.error /\ out.bot_response # ""
    THEN [out.session_state EXCEPT
            !.messages = Append(@, [role |-> "assistant", content |-> out.bot_response])]
    ELSE out.session_state


(***************************************************************************)
(* The user and the bounds of the model.  The user types any message of    *)
(* Prompts in any phase.  The reference dialogue is the one in which the   *)
(* candidate gives an acceptable answer at every step and the gateway      *)
(* answers every call as asked; a turn with another message, or with       *)
(* another gateway outcome, is a detour, and a session makes at most       *)
(* MaxDetours of them.                                                     *)
(***************************************************************************)
MaxDetours == 1

ReferenceAnswers ==
    << "Jane Doe", "jane@example.com", "5551234567", "3.5", "Data Analyst", "Remote", "Python, SQL" >>

Prompts ==
    { ReferenceAnswers[k] : k \in 1..Len(ReferenceAnswers) }
    \cup { "hello", "yes", "idk" }
    \cup { "Jane123", "not-an-email", "-1", "0", "Bye", "Brendan Smith", "Backend Developer", "yes thanks" }

ReferencePrompt(ss) ==
    CASE ss.conversation_phase = DATA_COLLECTION -> ReferenceAnswers[ss.current_step]
      [] ss.conversation_phase = DATA_CONFIRMATION -> "yes"
      [] ss.conversation_phase = TECHNICAL_QUESTIONS -> "idk"
      [] OTHER -> "hello"

\* no gateway call is made: the outcome is never read
NoCall == Raised

\* the outcomes of the gateway call a turn makes, by the function that makes it
Replies(call) ==
    CASE call = "validate_text_input_with_ai" -> ValidationReplies
      [] call = "get_ai_response" -> FreeFormReplies
      [] call = "generate_technical_questions" -> GenerationReplies
      [] call = "evaluate_technical_answer" -> EvaluationReplies
      [] OTHER -> {NoCall}

ReferenceReply(call) ==
    CASE call = "validate_text_input_with_ai" -> Returned("Yes")
      [] call = "get_ai_response" -> Returned("Hello! I'm Maya from TalentScout.")
      [] call = "generate_technical_questions" -> Returned(FiveQuestions)
      [] call = "evaluate_technical_answer" -> Returned(JsonObject(<< ModelFeedback >>, << ModelExplanation >>))
      [] OTHER -> NoCall

IsDetour(p, reply, call) == p # ReferencePrompt(session_state) \/ reply # ReferenceReply(call)

\* the dispatch with the exit pre-check tried after the phases instead of first
PromptsWithoutPreCheck == Prompts

\* the messages the exit pre-check of line 195 takes, and the others, which
\* reach the elif chain of lines 199-287
ExitPrompts == { p \in Prompts : HasExitKeyword(p) }
OtherPrompts == { p \in Prompts : ~HasExitKeyword(p) }

(***************************************************************************)
(* Init: the first run of the script, which receives no message            *)
(***************************************************************************)
Init ==
    /\ session_state = initialize_session_state(NoKeys)
    /\ prompt = ""
    /\ phase = GREETING
    /\ branch = ""
    /\ is_valid = FALSE
    /\ bot_response = ""
    /\ error = FALSE
    /\ calls = << >>
    /\ detours = 0

(***************************************************************************)
(* A run with a chat message (lines 183-291)                               *)
(***************************************************************************)
Run(p, taken, out, detour) ==
    /\ detours + (IF detour THEN 1 ELSE 0) <= MaxDetours
    /\ detours' = detours + (IF detour THEN 1 ELSE 0)
    /\ session_state' = WithBotMessage(out)
    /\ prompt' = p
    /\ phase' = session_state.conversation_phase
    /\ branch' = taken
    /\ is_valid' = out.is_valid
    /\ bot_response' = out.bot_response
    /\ error' = out.error
    /\ calls' = out.calls

\* the exit pre-check without the guard of line 183: the chat input is shown
\* in phase ended too
ExitTurnInEveryPhase ==
    \E p \in ExitPrompts :
        Run(p, "exit",
            exit_branch(WithUserMessage(session_state, p), p, candidate_first_name(session_state)),
            TRUE)

ExitTurn ==
    /\ session_state.conversation_phase # ENDED
    /\ \E p \in ExitPrompts :
        Run(p, "exit",
            exit_branch(WithUserMessage(session_state, p), p, candidate_first_name(session_state)),
            TRUE)

GreetingTurn ==
    /\ session_state.conversation_phase = GREETING
    /\ \E p \in OtherPrompts : \E reply \in Replies("get_ai_response") :
        Run(p, GREETING,
            greeting_branch(WithUserMessage(session_state, p), p,
                            candidate_first_name(session_state), reply),
            IsDetour(p, reply, "get_ai_response"))

DataCollectionTurn ==
    /\ session_state.conversation_phase = DATA_COLLECTION
    /\ LET call == IF UsesGateway(session_state.current_step)
                   THEN "validate_text_input_with_ai" ELSE ""
       IN  \E p \in OtherPrompts : \E reply \in Replies(call) :
            Run(p, DATA_COLLECTION,
                data_collection_branch(WithUserMessage(session_state, p), p,
                                       candidate_first_name(session_state), reply),
                IsDetour(p, reply, call))

DataConfirmationTurn ==
    /\ session_state.conversation_phase = DATA_CONFIRMATION
    /\ \E p \in OtherPrompts :
        LET call == IF IsAffirmative(p) THEN "generate_technical_questions" ELSE ""
        IN  \E reply \in Replies(call) :
            Run(p, DATA_CONFIRMATION,
                data_confirmation_branch(WithUserMessage(session_state, p), p,
                                         candidate_first_name(session_state), reply),
                IsDetour(p, reply, call))

TechnicalQuestionsTurn ==
    /\ session_state.conversation_phase = TECHNICAL_QUESTIONS
    /\ \E p \in OtherPrompts : \E reply \in Replies("evaluate_technical_answer") :
        Run(p, TECHNICAL_QUESTIONS,
            technical_questions_branch(WithUserMessage(session_state, p), p,
                                       candidate_first_name(session_state), reply),
            IsDetour(p, reply, "evaluate_technical_answer"))

ConclusionTurn ==
    /\ session_state.conversation_phase = CONCLUSION
    /\ \E p \in OtherPrompts : \E reply \in Replies("get_ai_response") :
        Run(p, CONCLUSION,
            conclusion_branch(WithUserMessage(session_state, p), p,
                              candidate_first_name(session_state), reply),
            IsDetour(p, reply, "get_ai_response"))

(***************************************************************************)
(* A run with the click of "Start New Interview Session" (lines 293-299),  *)
(* and the run st.rerun() starts, which initialises the session again      *)
(***************************************************************************)
Reset ==
    /\ session_state.conversation_phase = ENDED
    /\ session_state' = initialize_session_state(DeleteKeys(session_state, DOMAIN session_state))
    /\ prompt' = ""
    /\ phase' = session_state'.conversation_phase
    /\ branch' = "reset"
    /\ is_valid' = FALSE
    /\ bot_response' = ""
    /\ error' = FALSE
    /\ calls' = << >>
    /\ detours' = 0

Next ==
    \/ ExitTurn
    \/ GreetingTurn
    \/ DataCollectionTurn
    \/ DataConfirmationTurn
    \/ TechnicalQuestionsTurn
    \/ ConclusionTurn
    \/ Reset

Spec == Init /\ [][Next]_vars


(***************************************************************************)
(* Properties.  The variables prompt, phase, branch, is_valid,             *)
(* bot_response, error and calls describe the run that led to the current  *)
(* state; in an action formula their primed forms describe the run that    *)
(* makes the step, and the unprimed session_state is the state before it.  *)
(***************************************************************************)
NonTerminalPhases == { GREETING, DATA_COLLECTION, DATA_CONFIRMATION, TECHNICAL_QUESTIONS, CONCLUSION }

\* the last run was a user turn
WasTurn == branch \in NonTerminalPhases \cup { "exit" }

\* p contains one of the ten exit keywords, letter case ignored: stated
\* character by character, apart from the code's search
MentionsExitWord(p) ==
    \E w \in { "bye", "goodbye", "exit", "quit", "end", "stop", "finish", "done", "thanks", "thank you" } :
        \E i \in 1..(Len(p) - Len(w) + 1) :
            \A j \in 1..Len(w) : LowerChar(CharAt(p, i + j - 1)) = CharAt(w, j)

\* C1: a user turn in a non-terminal phase whose message contains an exit
\* keyword leaves the session in phase ended, whatever else the message holds.
C1_ExitKeywordEndsSession ==
    (WasTurn /\ MentionsExitWord(prompt)) => session_state.conversation_phase = ENDED

\* C1 witness: at step 1 of data_collection a message that is a valid full name
\* and contains "end" has ended the session.
C1_Witness ==
    /\ branch = "exit"
    /\ phase = DATA_COLLECTION
    /\ session_state.current_step = 1
    /\ ValidName(prompt)
    /\ session_state.conversation_phase = ENDED

\* the profile, the step index and the phase are those of before the step
ProfileStepPhaseUnchanged ==
    /\ session_state'.candidate_data = session_state.candidate_data
    /\ session_state'.current_step = session_state.current_step
    /\ session_state'.conversation_phase = session_state.conversation_phase

\* the step is a user turn taken in data_collection
TurnInDataCollection ==
    /\ branch' \in NonTerminalPhases \cup { "exit" }
    /\ session_state.conversation_phase = DATA_COLLECTION

\* the message of the step fails the validator of the current step: for steps
\* 1 to 4 by the rule of the step, for steps 5 to 7 by the verdict of the run
FailsCurrentValidator ==
    LET k == session_state.current_step
    IN  IF UsesGateway(k) THEN branch' = DATA_COLLECTION /\ ~is_valid'
        ELSE ~Validation(k, prompt', NoCall)

PassesCurrentValidator ==
    LET k == session_state.current_step
    IN  IF UsesGateway(k) THEN branch' = DATA_COLLECTION /\ is_valid'
        ELSE Validation(k, prompt', NoCall)

RepeatsErrorMessage == Contains(DATA_STEPS[session_state.current_step].error_msg, bot_response')

\* C2 as stated: in data_collection every message that fails the current
\* step's validator leaves phase, step index and profile unchanged and is
\* answered with the step's error message.
C2_Original ==
    [][ (TurnInDataCollection /\ FailsCurrentValidator)
            => (ProfileStepPhaseUnchanged /\ RepeatsErrorMessage) ]_vars

\* C2 amended: in data_collection every message that contains no exit keyword
\* and fails the current step's validator leaves phase, step index and profile
\* unchanged and is answered with the step's error message.
C2_RejectedInputChangesNothing ==
    [][ (TurnInDataCollection /\ ~MentionsExitWord(prompt') /\ FailsCurrentValidator)
            => (ProfileStepPhaseUnchanged /\ RepeatsErrorMessage) ]_vars

\* C2 witness: the location validator, its gateway call having raised, has
\* rejected a message of two characters and the step is still 6.
C2_Witness ==
    /\ branch = DATA_COLLECTION
    /\ ~is_valid
    /\ session_state.current_step = 6
    /\ Len(prompt) = 2
    /\ session_state.candidate_data["location"] = ""
    /\ Contains("Please provide a valid location or specify 'remote'.", bot_response)

\* the step stores the message in the field of the current step, changes no
\* other field, and moves the step index on by one
StoresAndAdvances ==
    LET k == session_state.current_step
    IN  /\ session_state'.current_step = k + 1
        /\ session_state'.candidate_data =
              [session_state.candidate_data EXCEPT ![DATA_STEPS[k].field] = prompt']

\* C3 as stated: in data_collection every message that satisfies the current
\* step's validator advances the step index by one and sets exactly the field
\* of the step, to the message.
C3_Original ==
    [][ (TurnInDataCollection /\ PassesCurrentValidator) => StoresAndAdvances ]_vars

\* C3 amended: in data_collection every message that contains no exit keyword
\* and satisfies the current step's validator advances the step index by one
\* and sets exactly the field of the step, to the message.
C3_AcceptedInputStoresOneField ==
    [][ (TurnInDataCollection /\ ~MentionsExitWord(prompt') /\ PassesCurrentValidator)
            => StoresAndAdvances ]_vars

\* C3 witness: the experience step has accepted "3.5" and the step index is 5.
C3_Witness ==
    /\ branch = DATA_COLLECTION
    /\ is_valid
    /\ prompt = "3.5"
    /\ session_state.current_step = 5
    /\ session_state.candidate_data["experience"] = "3.5"
    /\ session_state.candidate_data["position"] = ""

\* the number of places of s at which sub starts
Occurrences(sub, s) ==
    Cardinality({ i \in 1..(Len(s) - Len(sub) + 1) : SubSeq(s, i, i + Len(sub) - 1) = sub })

SummaryTitles == << "Name", "Email", "Phone", "Experience", "Position", "Location", "Tech Stack" >>

\* C4: the turn that accepts step 7 leaves the phase data_confirmation and all
\* seven profile fields non-empty, and its message holds one summary entry per
\* field, with the collected value, and no other entry.
C4_SummaryListsSevenValues ==
    (branch = DATA_COLLECTION /\ is_valid /\ session_state.current_step = 8)
        => /\ session_state.conversation_phase = DATA_CONFIRMATION
           /\ \A k \in 1..7 : session_state.candidate_data[DATA_STEPS[k].field] # ""
           /\ \A k \in 1..7 :
                Occurrences("- **" \o SummaryTitles[k] \o ":** "
                               \o session_state.candidate_data[DATA_STEPS[k].field] \o "\n",
                            bot_response) = 1
           /\ Occurrences("- **", bot_response) = 7

\* C4 witness: step 7 has just been accepted, after the seven reference answers.
C4_Witness ==
    /\ branch = DATA_COLLECTION
    /\ is_valid
    /\ session_state.current_step = 8
    /\ session_state.candidate_data["name"] = "Jane Doe"
    /\ session_state.candidate_data["tech_stack"] = prompt
    /\ session_state.conversation_phase = DATA_CONFIRMATION


Cursor == session_state.current_question_index

\* C5 as stated, for the turns the technical_questions branch handles: the
\* cursor goes up by exactly 1, the phase becomes conclusion exactly when the
\* cursor reaches 5, and the phase is never technical_questions with cursor 5.
C5_CursorAdvancesEveryTurn ==
    [][ branch' = TECHNICAL_QUESTIONS
            => /\ Cursor' = Cursor + 1
               /\ (session_state'.conversation_phase = CONCLUSION) <=> (Cursor' = 5)
               /\ session_state'.conversation_phase \in { TECHNICAL_QUESTIONS, CONCLUSION } ]_vars

\* C6 as stated: whatever the gateway does, question generation leaves five
\* questions, none of them empty.
C6_FiveNonEmptyQuestions ==
    (branch = DATA_CONFIRMATION /\ calls = << "generate_technical_questions" >>)
        => /\ Len(session_state.technical_questions) = 5
           /\ \A i \in 1..5 : session_state.technical_questions[i] # ""

\* C7 as stated: whatever the evaluation call does, the turn of
\* technical_questions ends without an error, with the answer recorded at the
\* cursor, the cursor moved on by 1 and an assistant message appended.
C7_EvaluationOutcomeNeverEscapes ==
    [][ branch' = TECHNICAL_QUESTIONS
            => /\ ~error'
               /\ Cursor' = Cursor + 1
               /\ session_state'.technical_answers[Cursor + 1] = prompt'
               /\ Len(session_state'.messages) = Len(session_state.messages) + 2
               /\ session_state'.messages[Len(session_state'.messages)].role = "assistant" ]_vars

\* C8: after the reset and the initialisation that follows it, the session is
\* a fresh one: phase greeting, the seven fields empty, no message, step 1,
\* cursor 0, no question, no answer, retry count 0.
C8_ResetYieldsFreshSession ==
    branch = "reset"
        => /\ DOMAIN session_state = { "candidate_data", "current_step", "conversation_phase",
                                       "technical_questions", "technical_answers",
                                       "current_question_index", "retry_count", "messages" }
           /\ session_state.conversation_phase = GREETING
           /\ DOMAIN session_state.candidate_data =
                  { "name", "email", "phone", "experience", "position", "location", "tech_stack" }
           /\ \A f \in DOMAIN session_state.candidate_data : session_state.candidate_data[f] = ""
           /\ Len(session_state.messages) = 0
           /\ session_state.current_step = 1
           /\ session_state.current_question_index = 0
           /\ Len(session_state.technical_questions) = 0
           /\ Len(session_state.technical_answers) = 0
           /\ session_state.retry_count = 0

\* C8 witness: the restart button has been used.
C8_Witness ==
    /\ branch = "reset"
    /\ phase = GREETING
    /\ session_state.conversation_phase = GREETING
    /\ detours = 0

\* C9: but for the reset, a step changes a profile field only from empty to the
\* message, in a data_collection turn at the field's own step whose validator
\* accepted the message; an accepting turn finds its field empty.
C9_FieldsWrittenOnce ==
    [][ branch' # "reset"
            => \A k \in 1..7 :
                 LET old == session_state.candidate_data[DATA_STEPS[k].field]
                     new == session_state'.candidate_data[DATA_STEPS[k].field]
                 IN  /\ (old # "") => (new = old)
                     /\ (new # old) => /\ branch' = DATA_COLLECTION
                                       /\ is_valid'
                                       /\ session_state.current_step = k
                                       /\ new = prompt'
                     /\ (branch' = DATA_COLLECTION /\ is_valid' /\ session_state.current_step = k)
                            => old = "" ]_vars

\* C9 witness: in conclusion, many turns after they were stored, the fields
\* hold the answers given at their steps.
C9_Witness ==
    /\ session_state.conversation_phase = CONCLUSION
    /\ \A k \in 1..7 : session_state.candidate_data[DATA_STEPS[k].field] = ReferenceAnswers[k]
    /\ Len(session_state.messages) > 2 * 14

PhaseOrder == << GREETING, DATA_COLLECTION, DATA_CONFIRMATION, TECHNICAL_QUESTIONS, CONCLUSION, ENDED >>

PhaseRank(ph) == CHOOSE i \in 1..Len(PhaseOrder) : PhaseOrder[i] = ph

\* C10: a user turn keeps the phase, moves it to the next phase of the order
\* greeting, data_collection, data_confirmation, technical_questions,
\* conclusion, ended, or moves it to ended.
C10_PhaseMovesForward ==
    [][ branch' # "reset"
            => LET before == PhaseRank(session_state.conversation_phase)
                   after == PhaseRank(session_state'.conversation_phase)
               IN  after = before \/ after = before + 1 \/ after = PhaseRank(ENDED) ]_vars

\* C10 witness: the candidate declined the summary and the phase is still
\* data_confirmation.
C10_Witness ==
    /\ branch = DATA_CONFIRMATION
    /\ ~IsAffirmative(prompt)
    /\ session_state.conversation_phase = DATA_CONFIRMATION
    /\ session_state.current_step = 8

History == session_state.messages

\* the step is a user turn: a run that received a chat message
IsTurn == branch' \in NonTerminalPhases \cup { "exit" }

\* C11 as stated: every user turn, in every non-terminal phase and for every
\* gateway outcome, extends the history by the user message followed by one
\* assistant message and changes no earlier entry.
C11_TurnAppendsUserThenAssistant ==
    [][ IsTurn
            => /\ Len(History') = Len(History) + 2
               /\ SubSeq(History', 1, Len(History)) = History
               /\ History'[Len(History) + 1] = [role |-> "user", content |-> prompt']
               /\ History'[Len(History) + 2].role = "assistant" ]_vars

\* the phases a turn taken in phase ph may leave behind after at most one
\* transition: ph itself, the phase that follows it, or ended
OneTransitionFrom(ph) ==
    { ph, ENDED } \cup { PhaseOrder[i + 1] : i \in { j \in 1..(Len(PhaseOrder) - 1) : PhaseOrder[j] = ph } }

\* C12: every user turn makes at most one phase transition and at most one
\* gateway call; the turn that moves data_confirmation to technical_questions
\* makes the question-generation call, and the reply it appends to the history
\* carries the first question that call produced.
C12_OneTransitionOneCall ==
    [][ IsTurn
            => /\ session_state'.conversation_phase \in OneTransitionFrom(session_state.conversation_phase)
               /\ Len(calls') <= 1
               /\ (/\ session_state.conversation_phase = DATA_CONFIRMATION
                   /\ session_state'.conversation_phase = TECHNICAL_QUESTIONS)
                     => /\ calls' = << "generate_technical_questions" >>
                        /\ Contains(session_state'.technical_questions[1], bot_response')
                        /\ History'[Len(History')] = [role |-> "assistant", content |-> bot_response'] ]_vars

\* C12 witness: the candidate has confirmed the summary; the one call of the
\* turn generated the questions and the reply shows the first of them.
C12_Witness ==
    /\ branch = DATA_CONFIRMATION
    /\ phase = DATA_CONFIRMATION
    /\ session_state.conversation_phase = TECHNICAL_QUESTIONS
    /\ calls = << "generate_technical_questions" >>
    /\ Contains("**Question 1:** " \o session_state.technical_questions[1], bot_response)
    /\ History[Len(History)].content = bot_response

\* the step is a user turn taken in data_confirmation
TurnInDataConfirmation ==
    /\ IsTurn
    /\ session_state.conversation_phase = DATA_CONFIRMATION

\* what question generation can return for the stored stack and experience
GeneratedQuestionSets ==
    { generate_technical_questions(session_state.candidate_data["tech_stack"],
                                   session_state.candidate_data["experience"], reply) :
        reply \in GenerationReplies }

\* C13: in data_confirmation a message without an exit keyword that contains
\* an affirmative keyword leaves, in that one turn, the question set equal to
\* the 5 strings question generation returned, the answer log equal to 5 empty
\* slots, the cursor 0 and the phase technical_questions, and its bot message
\* contains the question at index 0.
C13_ConfirmationStartsQuestions ==
    [][ (TurnInDataConfirmation /\ ~MentionsExitWord(prompt') /\ IsAffirmative(prompt'))
            => /\ session_state'.technical_questions \in GeneratedQuestionSets
               /\ Len(session_state'.technical_questions) = 5
               /\ session_state'.technical_answers = << "", "", "", "", "" >>
               /\ Cursor' = 0
               /\ session_state'.conversation_phase = TECHNICAL_QUESTIONS
               /\ Contains(session_state'.technical_questions[1], bot_response')
               /\ History'[Len(History')] = [role |-> "assistant", content |-> bot_response'] ]_vars

\* C13 witness: "yes" has confirmed the summary and the five questions the
\* gateway listed are the question set, none of them answered.
C13_Witness ==
    /\ branch = DATA_CONFIRMATION
    /\ prompt = "yes"
    /\ session_state.conversation_phase = TECHNICAL_QUESTIONS
    /\ session_state.technical_questions # fallback_questions
    /\ session_state.technical_questions[1] = "What is a decorator?"
    /\ session_state.technical_answers = << "", "", "", "", "" >>
    /\ Cursor = 0

\* C14: in data_confirmation a message that contains neither an exit keyword
\* nor an affirmative keyword leaves the phase, the profile, the step index,
\* the cursor, the question set and the answer log unchanged and makes no
\* gateway call; of the session state only the history changes, and it grows.
C14_DeclinedConfirmationChangesNothing ==
    [][ (TurnInDataConfirmation /\ ~MentionsExitWord(prompt') /\ ~IsAffirmative(prompt'))
            => /\ ProfileStepPhaseUnchanged
               /\ Cursor' = Cursor
               /\ session_state'.technical_questions = session_state.technical_questions
               /\ session_state'.technical_answers = session_state.technical_answers
               /\ session_state' = [session_state EXCEPT !.messages = History']
               /\ calls' = << >>
               /\ Len(History') > Len(History)
               /\ SubSeq(History', 1, Len(History)) = History ]_vars

\* C14 witness: "hello" was the answer to the summary; no call was made, the
\* session is as it was when the summary was shown, and the history has grown
\* by the message and the question of what to change.
C14_Witness ==
    /\ branch = DATA_CONFIRMATION
    /\ prompt = "hello"
    /\ calls = << >>
    /\ session_state.conversation_phase = DATA_CONFIRMATION
    /\ session_state.current_step = 8
    /\ Len(session_state.technical_questions) = 0
    /\ History[Len(History) - 1] = [role |-> "user", content |-> "hello"]
    /\ Contains("What information would you like to change?", History[Len(History)].content)

\* C15: in greeting every message without an exit keyword leaves the phase
\* data_collection, the step index 1 and all seven profile fields empty,
\* whatever the outcome of the free-form gateway call; the message is stored
\* in no profile field.
C15_GreetingMovesToDataCollection ==
    [][ (IsTurn /\ session_state.conversation_phase = GREETING /\ ~MentionsExitWord(prompt'))
            => /\ session_state'.conversation_phase = DATA_COLLECTION
               /\ session_state'.current_step = 1
               /\ \A k \in 1..7 : session_state'.candidate_data[DATA_STEPS[k].field] = ""
               /\ \A f \in DOMAIN session_state'.candidate_data :
                      session_state'.candidate_data[f] # prompt' ]_vars

\* C15 witness: the first message was a valid full name and the gateway call
\* raised; the phase is data_collection at step 1 and no name is stored.
C15_Witness ==
    /\ branch = GREETING
    /\ prompt = "Jane Doe"
    /\ Contains("technical difficulties", bot_response)
    /\ session_state.conversation_phase = DATA_COLLECTION
    /\ session_state.current_step = 1
    /\ session_state.candidate_data["name"] = ""

\* the question set has been generated: the session has entered
\* technical_questions
QuestionsGenerated ==
    \/ Len(session_state.technical_questions) > 0
    \/ session_state.conversation_phase \in { TECHNICAL_QUESTIONS, CONCLUSION }

\* C16: once the question set has been generated, no step of the session
\* changes it; the set changes only in the turn that moves data_confirmation to
\* technical_questions and in the reset, which ends the session.
C16_QuestionsImmutable ==
    [][ /\ (QuestionsGenerated /\ branch' # "reset")
            => session_state'.technical_questions = session_state.technical_questions
        /\ (session_state'.technical_questions # session_state.technical_questions)
            => \/ branch' = "reset"
               \/ /\ session_state.conversation_phase = DATA_CONFIRMATION
                  /\ session_state'.conversation_phase = TECHNICAL_QUESTIONS
                  /\ Len(session_state.technical_questions) = 0 ]_vars

\* C16 witness: the session has ended after the conclusion; the five questions
\* are those the gateway listed at the confirmation, all five answered since.
C16_Witness ==
    /\ branch = CONCLUSION
    /\ session_state.conversation_phase = ENDED
    /\ session_state.technical_questions =
          << "What is a decorator?", "What is a generator?", "What is an index?",
             "What is a join?", "What is a transaction?" >>
    /\ \A i \in 1..5 : session_state.technical_answers[i] # ""

\* the first token of the name stored in the profile
StoredFirstName == SplitFirst(session_state.candidate_data["name"], " ")

\* C17 as stated: the acknowledgement of each of steps 1 to 6, that of step 1
\* included, addresses the candidate by the first token of the stored name and
\* not by the placeholder "there".
C17_AcknowledgementUsesStoredName ==
    (branch = DATA_COLLECTION /\ is_valid /\ session_state.current_step \in 2..7)
        => /\ session_state.candidate_data["name"] # ""
           /\ Contains(StoredFirstName \o "!", bot_response)
           /\ ~Contains("there!", bot_response)

\* C18: ended is terminal: in a state with phase ended no turn is enabled and
\* the reset is; so the only step that changes anything (phase, profile, step
\* index, cursor, questions, answers or history) is the reset.
C18_EndedIsTerminal ==
    [][ session_state.conversation_phase = ENDED
            => /\ ~ENABLED ExitTurn
               /\ ~ENABLED GreetingTurn
               /\ ~ENABLED DataCollectionTurn
               /\ ~ENABLED DataConfirmationTurn
               /\ ~ENABLED TechnicalQuestionsTurn
               /\ ~ENABLED ConclusionTurn
               /\ ENABLED Reset
               /\ branch' = "reset"
               /\ prompt' = ""
               /\ History' = << >> ]_vars

\* C18 witness: the candidate left at the third technical question; the
\* session is ended with its profile, questions, answers and history in place.
C18_Witness ==
    /\ session_state.conversation_phase = ENDED
    /\ branch = "exit"
    /\ phase = TECHNICAL_QUESTIONS
    /\ Cursor = 2
    /\ session_state.current_step = 8
    /\ Len(session_state.technical_questions) = 5
    /\ History[Len(History)].role = "assistant"

\* C19: in every reachable state the step index is in 1..8 and the profile
\* field of step i is non-empty exactly when i is below the step index; the
\* phase is data_confirmation, technical_questions or conclusion only with
\* step index 8, and in data_collection the step index is one of the catalog.
C19_StepIndexCountsFilledFields ==
    /\ session_state.current_step \in 1..8
    /\ \A i \in 1..7 :
          (session_state.candidate_data[DATA_STEPS[i].field] # "") <=> (i < session_state.current_step)
    /\ session_state.conversation_phase \in { DATA_CONFIRMATION, TECHNICAL_QUESTIONS, CONCLUSION }
          => session_state.current_step = 8
    /\ session_state.conversation_phase = DATA_COLLECTION
          => session_state.current_step \in 1..Len(DATA_STEPS)

\* C19 witness: at step 4 a message has just been rejected; the first three
\* fields are filled and the last four are empty.
C19_Witness ==
    /\ branch = DATA_COLLECTION
    /\ ~is_valid
    /\ session_state.conversation_phase = DATA_COLLECTION
    /\ session_state.current_step = 4
    /\ session_state.candidate_data["phone"] = "5551234567"
    /\ session_state.candidate_data["experience"] = ""

Answers == session_state.technical_answers

\* C20: in technical_questions the question set and the answer log have
\* length 5 and the cursor is in 0..4; the slots below the cursor are filled
\* and those at or above it are empty; in conclusion the cursor is 5 and the
\* five slots are filled.  A slot is filled by the turn that answers its
\* question, with the message of that turn, and is not changed afterwards.
C20_AnswerLogFollowsCursor ==
    /\ [] /\ session_state.conversation_phase = TECHNICAL_QUESTIONS
              => /\ Len(session_state.technical_questions) = 5
                 /\ Len(Answers) = 5
                 /\ Cursor \in 0..4
                 /\ \A i \in 1..5 : (Answers[i] # "") <=> (i <= Cursor)
          /\ session_state.conversation_phase = CONCLUSION
              => /\ Cursor = 5
                 /\ Len(Answers) = 5
                 /\ \A i \in 1..5 : Answers[i] # ""
    /\ [][ (session_state.conversation_phase = TECHNICAL_QUESTIONS /\ IsTurn)
              => \A i \in 1..5 :
                    /\ (i <= Cursor) => Answers'[i] = Answers[i]
                    /\ (Answers'[i] # Answers[i])
                          => /\ i = Cursor + 1
                             /\ Cursor' = i
                             /\ Answers'[i] = prompt' ]_vars

\* C20 witness: three questions are answered, the second with another message
\* than the others; the answers are in the first three slots, in order.
C20_Witness ==
    /\ session_state.conversation_phase = TECHNICAL_QUESTIONS
    /\ branch = TECHNICAL_QUESTIONS
    /\ Cursor = 3
    /\ Answers = << "idk", "hello", "idk", "", "" >>

\* C21: a turn taken by the exit pre-check changes, of the session state, only
\* the phase and the history: no validator runs and no gateway call is made,
\* and the profile, the step index, the cursor, the question set and the
\* answer log are as they were before the turn.
C21_ExitTurnChangesPhaseAndHistoryOnly ==
    [][ (IsTurn /\ MentionsExitWord(prompt'))
            => /\ session_state' = [session_state EXCEPT !.conversation_phase = ENDED,
                                                         !.messages = History']
               /\ session_state'.candidate_data = session_state.candidate_data
               /\ session_state'.current_step = session_state.current_step
               /\ Cursor' = Cursor
               /\ session_state'.technical_questions = session_state.technical_questions
               /\ Answers' = Answers
               /\ calls' = << >>
               /\ ~is_valid'
               /\ SubSeq(History', 1, Len(History)) = History
               /\ Len(History') = Len(History) + 2 ]_vars

\* C21 witness: at step 5 the candidate wrote "Backend Developer", which holds
\* the exit keyword "end": the session is ended, the position is not stored,
\* the step index is still 5 and no call was made.
C21_Witness ==
    /\ branch = "exit"
    /\ phase = DATA_COLLECTION
    /\ prompt = "Backend Developer"
    /\ session_state.conversation_phase = ENDED
    /\ session_state.current_step = 5
    /\ session_state.candidate_data["position"] = ""
    /\ session_state.candidate_data["experience"] # ""
    /\ calls = << >>

(***************************************************************************)
(* The specification of progress.  A session in which turns fail can go on *)
(* for ever, and its history grows with every turn; so that such a session *)
(* is a cycle of finitely many states, this specification does not record  *)
(* the history: no line of the dispatch reads it but to pass it to the     *)
(* gateway, whose outcome is free.  In its place the user is free at every *)
(* turn, with no budget of detours, to give the reference answer, another  *)
(* message, or an exit message.                                            *)
(***************************************************************************)
WithoutHistory(ss) == [ss EXCEPT !.messages = << >>]

\* the messages of the user: the answer of the reference dialogue or "hello",
\* and, for the exit pre-check, "Bye"
LivePrompts(ss) == { ReferencePrompt(ss), "hello" }

LiveExitPrompts == { "Bye" }

\* lines 183-291, as Run, the history left out
LiveRun(p, taken, out) ==
    /\ session_state' = WithoutHistory(WithBotMessage(out))
    /\ prompt' = p
    /\ phase' = session_state.conversation_phase
    /\ branch' = taken
    /\ is_valid' = out.is_valid
    /\ bot_response' = out.bot_response
    /\ error' = out.error
    /\ calls' = out.calls
    /\ detours' = detours

LiveExitTurn ==
    /\ session_state.conversation_phase # ENDED
    /\ \E p \in LiveExitPrompts :
        LiveRun(p, "exit",
                exit_branch(WithUserMessage(session_state, p), p, candidate_first_name(session_state)))

LiveGreetingTurn ==
    /\ session_state.conversation_phase = GREETING
    /\ \E p \in LivePrompts(session_state) : \E reply \in Replies("get_ai_response") :
        LiveRun(p, GREETING,
                greeting_branch(WithUserMessage(session_state, p), p,
                                candidate_first_name(session_state), reply))

LiveDataCollectionTurn ==
    /\ session_state.conversation_phase = DATA_COLLECTION
    /\ LET call == IF UsesGateway(session_state.current_step)
                   THEN "validate_text_input_with_ai" ELSE ""
       IN  \E p \in LivePrompts(session_state) : \E reply \in Replies(call) :
            LiveRun(p, DATA_COLLECTION,
                    data_collection_branch(WithUserMessage(session_state, p), p,
                                           candidate_first_name(session_state), reply))

LiveDataConfirmationTurn ==
    /\ session_state.conversation_phase = DATA_CONFIRMATION
    /\ \E p \in LivePrompts(session_state) :
        LET call == IF IsAffirmative(p) THEN "generate_technical_questions" ELSE ""
        IN  \E reply \in Replies(call) :
            LiveRun(p, DATA_CONFIRMATION,
                    data_confirmation_branch(WithUserMessage(session_state, p), p,
                                             candidate_first_name(session_state), reply))

LiveTechnicalQuestionsTurn ==
    /\ session_state.conversation_phase = TECHNICAL_QUESTIONS
    /\ \E p \in LivePrompts(session_state) : \E reply \in Replies("evaluate_technical_answer") :
        LiveRun(p, TECHNICAL_QUESTIONS,
                technical_questions_branch(WithUserMessage(session_state, p), p,
                                           candidate_first_name(session_state), reply))

LiveConclusionTurn ==
    /\ session_state.conversation_phase = CONCLUSION
    /\ \E p \in LivePrompts(session_state) : \E reply \in Replies("get_ai_response") :
        LiveRun(p, CONCLUSION,
                conclusion_branch(WithUserMessage(session_state, p), p,
                                  candidate_first_name(session_state), reply))

LiveNext ==
    \/ LiveExitTurn
    \/ LiveGreetingTurn
    \/ LiveDataCollectionTurn
    \/ LiveDataConfirmationTurn
    \/ LiveTechnicalQuestionsTurn
    \/ LiveConclusionTurn
    \/ Reset

\* the user keeps sending messages: in greeting, technical_questions and
\* conclusion a turn is taken in the end; the candidate stays at no step of
\* data_collection for ever, a message the step's validator accepts coming in
\* the end; in data_confirmation an affirmative message comes in the end.  The
\* gateway owes nothing.
UserKeepsAnswering ==
    /\ WF_vars(LiveGreetingTurn)
    /\ \A k \in 1..Len(DATA_STEPS) :
          []<>~(session_state.conversation_phase = DATA_COLLECTION /\ session_state.current_step = k)
    /\ WF_vars(LiveDataConfirmationTurn /\ IsAffirmative(prompt'))
    /\ WF_vars(LiveTechnicalQuestionsTurn)
    /\ WF_vars(LiveConclusionTurn)

FairSpec == Init /\ [][LiveNext]_vars /\ UserKeepsAnswering

\* a user turn can be taken: the chat input of line 183 is shown
AcceptsUserTurn ==
    \/ ENABLED LiveExitTurn
    \/ ENABLED LiveGreetingTurn
    \/ ENABLED LiveDataCollectionTurn
    \/ ENABLED LiveDataConfirmationTurn
    \/ ENABLED LiveTechnicalQuestionsTurn
    \/ ENABLED LiveConclusionTurn

\* C22 as stated: every non-terminal state accepts a user turn, and, the user
\* answering as assumed, a session that is not ended is ended in the end,
\* whatever the gateway does.
C22_SessionReachesEnded ==
    /\ [](session_state.conversation_phase # ENDED => AcceptsUserTurn)
    /\ (session_state.conversation_phase # ENDED) ~> (session_state.conversation_phase = ENDED)


====
